---- MODULE Spec2Model ----
(***************************************************************************)
(* Model of the background DownloadManager of download-box                 *)
(* (src/src/background/main.ts).                                           *)
(*                                                                         *)
(* The manager is a singleton driven by browser events.  Every `await` of  *)
(* a download query suspends the handler: the query is issued, the browser *)
(* answers it at some later moment (the result is a snapshot of the        *)
(* download table at that moment) and the continuation runs at some still  *)
(* later moment.  Other handlers run in between.  The suspended handlers   *)
(* are the bag `tasks`.  A result depends on the moment of the answer only *)
(* through the table changes that precede it, so a task is answered either *)
(* right before a table change that alters its result, or when it resumes. *)
(***************************************************************************)
EXTENDS Integers, Sequences, FiniteSets, Bags, TLC

\* ------------------------------------------------------------------ bounds
\* Number of downloads the browser ever creates (ids are never reused).
NumDownloads == 2
\* Number of handlers that may be suspended on a query at the same time.
MaxTasks == 3
\* Cap on the length of the unchecked buffer plus the lookups in flight.
MaxUnchecked == 2
\* Number of browser events, popup messages and timer firings in a run.
MaxEvents == 3

Ids == 1..NumDownloads

\* ------------------------------------------------------- download records
\* An optional numeric property (bytesReceived?, fileSize?) that is absent.
Absent == 0 - 1

\* DownloadItem.error is a string; only its prefix is ever read, so a code
\* is the pair <<prefix, rest>> and an absent error is the empty tuple.
NoError == << >>
UserCanceled == <<"USER_", "CANCELED">>
NetworkFailed == <<"NETWORK_", "FAILED">>

Item(id, st, paused, err, br, fs) ==
  [id |-> id, state |-> st, paused |-> paused, error |-> err,
   bytesReceived |-> br, fileSize |-> fs]

\* The value of `item` after `const [ item ] = []`.
Undefined == Item(0, "undefined", FALSE, NoError, Absent, Absent)

\* A download the browser has not created yet / has erased from its history.
Fresh(id) == Item(id, "fresh", FALSE, NoError, Absent, Absent)
Erased(id) == Item(id, "erased", FALSE, NoError, Absent, Absent)

\* A download that has just begun to transfer.
Started(id) == Item(id, "in_progress", FALSE, NoError, 1, 2)

\* Timer handle value of `this.timer = null`.
NullTimer == 0

VARIABLES
  downloads,   \* the browser's download table: id -> DownloadItem
  timer,       \* this.timer: a handle, or NullTimer
  intervals,   \* the handles of the live setInterval timers
  unchecked,   \* this.unchecked
  tasks,       \* bag of the handlers suspended on a query
  icon,        \* arguments of the most recent Icon.draw call
  last,        \* the handler step just taken and the calls it made
  marks,       \* history of each entry of unchecked (not program state)
  gen,         \* number of PopupOpened messages so far (not program state)
  born,        \* downloads transferring ever since their onCreated event
               \* (not program state)
  owed,        \* StatusCheck messages the popup has not replied to
               \* (state of the popup, not of the manager)
  nEvents      \* events delivered so far (bounds the run; not program state)

vars == <<downloads, timer, intervals, unchecked, tasks, icon, last, marks, gen, born, owed, nEvents>>

\* ------------------------------------------------------------------ tasks
\* A handler suspended at `await search(...)`.
\*   kind      which continuation runs on resumption
\*   id        the id looked up (kind "changed"), else 0
\*   answered  whether the browser produced the result before a later change
\*             of the download table
\*   res       that result (meaningful once answered)
\*   from      for a drawIcon task: who called drawIcon
\*   gen       history: for a lookup, the number of PopupOpened messages
\*             that preceded its change event; for the redraw of a
\*             PopupOpened message, the number of that message
NewTask(kind, id, from, g) ==
  [kind |-> kind, id |-> id, answered |-> FALSE, res |-> << >>, from |-> from, gen |-> g]

Copies(t, n) == IF n = 0 THEN EmptyBag ELSE [x \in {t} |-> n]
HasFree(B) == BagCardinality(B) < MaxTasks
OfKind(B, kind) == {t \in BagToSet(B) : t.kind = kind}
RECURSIVE CountKind(_, _)
CountKind(B, S) ==
  IF S = {} THEN 0
  ELSE LET t == CHOOSE x \in S : TRUE IN CopiesIn(t, B) + CountKind(B, S \ {t})
InFlight(B, kind) == CountKind(B, OfKind(B, kind))

\* ------------------------------------------------- chrome.downloads.search
RECURSIVE ActiveFrom(_, _)
ActiveFrom(dl, i) ==
  IF i > NumDownloads THEN << >>
  ELSE (IF dl[i].state = "in_progress" THEN <<dl[i]>> ELSE << >>) \o ActiveFrom(dl, i + 1)

\* search({ state: 'in_progress' })
SearchActive(dl) == ActiveFrom(dl, 1)

\* search({ id })
SearchById(dl, id) ==
  IF dl[id].state \in {"in_progress", "interrupted", "complete"} THEN <<dl[id]>> ELSE << >>

\* start() and tick() read only the length of their result.
IdsOf(res) == [i \in 1..Len(res) |-> res[i].id]

\* What the browser answers to the query of task t when the table is dl.
Query(t, dl) ==
  IF t.kind = "changed" THEN SearchById(dl, t.id)
  ELSE IF t.kind = "draw" THEN SearchActive(dl)
  ELSE IdsOf(SearchActive(dl))

\* The suspended tasks whose answer the change of the table from dl to dl2
\* alters: each copy was answered before the change, or will be after it.
Affected(B, dl, dl2) ==
  {t \in BagToSet(B) : ~t.answered /\ Query(t, dl) # Query(t, dl2)}

Choices(B, dl, dl2) ==
  {f \in [Affected(B, dl, dl2) -> 0..MaxTasks] : \A t \in DOMAIN f : f[t] <= CopiesIn(t, B)}

Answered(t, dl) == [t EXCEPT !.answered = TRUE, !.res = Query(t, dl)]

\* f[t] copies of each task t of S are answered with the table dl.
RECURSIVE Freeze(_, _, _, _)
Freeze(B, S, f, dl) ==
  IF S = {} THEN B
  ELSE LET t == CHOOSE x \in S : TRUE
       IN Freeze((B (-) Copies(t, f[t])) (+) Copies(Answered(t, dl), f[t]), S \ {t}, f, dl)

\* The result a task resumes with.
Result(t) == IF t.answered THEN t.res ELSE Query(t, downloads)

\* ------------------------------------------------------------ Color policy
\* String.prototype.startsWith on an error code.
StartsWith(err, prefix) == Len(err) > 0 /\ err[1] = prefix

\* The error test without the exclusion of user cancellations.
ErroredAnyReason(d) == d.state = "interrupted"

\* d.state == 'interrupted' && !d.error?.startsWith('USER_')
\* (an absent error makes the optional chain undefined, whose negation is true)
Errored(d) == d.state = "interrupted" /\ ~StartsWith(d.error, "USER_")

\* this.unchecked.some(d => ...) of line 166: left to right, stopping at the
\* first match; reading d.state of an undefined entry throws a TypeError.
RECURSIVE SomeErrored(_)
SomeErrored(buf) ==
  IF buf = << >> THEN "false"
  ELSE IF Head(buf) = Undefined THEN "throw"
  ELSE IF Errored(Head(buf)) THEN "true"
  ELSE SomeErrored(Tail(buf))

\* activeDownloads.some(item => item.paused)
SomePaused(active) == \E i \in 1..Len(active) : active[i].paused

\* this.unchecked.some(c => c.state == 'complete') of line 174
RECURSIVE SomeComplete(_)
SomeComplete(buf) ==
  IF buf = << >> THEN "false"
  ELSE IF Head(buf) = Undefined THEN "throw"
  ELSE IF Head(buf).state = "complete" THEN "true"
  ELSE SomeComplete(Tail(buf))

\* The colour with the first two checks in the other order.
ColorOfPausedFirst(buf, active) ==
  IF SomePaused(active) THEN "Paused"
  ELSE IF SomeErrored(buf) = "throw" THEN "throw"
  ELSE IF SomeErrored(buf) = "true" THEN "Error"
  ELSE IF SomeComplete(buf) = "throw" THEN "throw"
  ELSE IF SomeComplete(buf) = "true" THEN "Complete"
  ELSE "Normal"

\* The colour computed by drawIcon, or "throw".
ColorOf(buf, active) ==
  IF SomeErrored(buf) = "throw" THEN "throw"
  ELSE IF SomeErrored(buf) = "true" THEN "Error"
  ELSE IF SomePaused(active) THEN "Paused"
  ELSE IF SomeComplete(buf) = "throw" THEN "throw"
  ELSE IF SomeComplete(buf) = "true" THEN "Complete"
  ELSE "Normal"

\* ------------------------------------------------------ Aggregate fraction
\* JavaScript truthiness of an optional number.
Falsy(x) == x = Absent \/ x = 0

\* The guard of the reduce callback.
Skipped(cur) ==
  \/ cur = Undefined
  \/ Falsy(cur.bytesReceived)
  \/ (Falsy(cur.bytesReceived) /\ Falsy(cur.fileSize))

\* computePercentage of '@/common': the pair (received, total).
computePercentage(cur) ==
  [num |-> IF cur.bytesReceived = Absent THEN 0 ELSE cur.bytesReceived,
   den |-> IF cur.fileSize = Absent THEN 0 ELSE cur.fileSize]

RECURSIVE Reduce(_)
Reduce(all) ==
  IF all = << >> THEN [num |-> 0, den |-> 0]
  ELSE LET acc == Reduce(SubSeq(all, 1, Len(all) - 1))
           cur == all[Len(all)]
       IN IF Skipped(cur) THEN acc
          ELSE [num |-> acc.num + computePercentage(cur).num,
                den |-> acc.den + computePercentage(cur).den]

\* The arguments with the fraction passed whenever any record is at hand.
DrawArgsAnyRecord(buf, active) ==
  IF Len(buf \o active) > 0
  THEN [color |-> ColorOf(buf, active), frac |-> TRUE,
        num |-> Reduce(buf \o active).num, den |-> Reduce(buf \o active).den]
  ELSE [color |-> ColorOf(buf, active), frac |-> FALSE, num |-> 0, den |-> 0]

\* The arguments drawIcon passes to Icon.draw.
DrawArgs(buf, active) ==
  IF Len(active) > 0
  THEN [color |-> ColorOf(buf, active), frac |-> TRUE,
        num |-> Reduce(buf \o active).num, den |-> Reduce(buf \o active).den]
  ELSE [color |-> ColorOf(buf, active), frac |-> FALSE, num |-> 0, den |-> 0]

\* this.icon.draw() of the constructor.
InitialIcon == [color |-> "default", frac |-> FALSE, num |-> 0, den |-> 0]

\* The record of a step: the handler part that ran, its argument (message
\* kind, new state of a delta, whether the timer field held a handle, or the
\* caller of a redraw), the query result a continuation resumed with, the
\* history number of the task it resumed and, in order, the calls it made to
\* the collaborators.
Step(op, arg, res, g, fx) == [op |-> op, arg |-> arg, res |-> res, gen |-> g, fx |-> fx]

\* ------------------------------------------------------------------- Init
\* The state once the module has been evaluated: the constructor has run and
\* the startup start() is suspended on its query.  Downloads may already be
\* transferring when the extension starts; the browser numbers downloads in
\* the order of their creation.
StartupDownloads ==
  {[d \in Ids |-> IF d <= n THEN Started(d) ELSE Fresh(d)] : n \in 0..NumDownloads}

Init ==
  /\ downloads \in StartupDownloads
  /\ timer = NullTimer
  /\ intervals = {}
  /\ unchecked = << >>
  /\ tasks = Copies(NewTask("start", 0, "none", 0), 1)
  /\ icon = InitialIcon
  /\ last = Step("startup", "", << >>, 0, <<"draw", "searchActive">>)
  /\ marks = << >>
  /\ gen = 0
  /\ born = {}
  /\ owed = 0
  /\ nEvents = 0

\* A browser event counts against the bound of the run.
Event == nEvents < MaxEvents /\ nEvents' = nEvents + 1

\* ------------------------------------------------------------ start / stop
\* The guard of start() with its test inverted.
AlreadyRunningInverted(t) == t = NullTimer

\* `if (this.timer !== null) return;`
AlreadyRunning(t) == t # NullTimer

\* The length test off by one: `length < 0` in place of `length <= 0`.
HasActiveOffByOne(res) == Len(res) >= 0

\* `activeDownloads.length > 0` (the negation of `length <= 0`)
HasActive(res) == Len(res) > 0

\* setInterval returns a handle no live timer has.
NewHandle(iv) ==
  CHOOSE h \in 1..(Cardinality(iv) + 1) : h \notin iv /\ \A g \in 1..(h - 1) : g \in iv

\* stop(): the live timers after the call, and the calls it makes.
stop(t, iv) == IF t = NullTimer THEN iv ELSE iv \ {t}
StopCalls(t) == IF t = NullTimer THEN << >> ELSE <<"clearInterval">>

\* ---------------------------------------------------------------- handlers
\* onCreated(), with start() up to its await; B are the suspended tasks.
onCreated(B) ==
  /\ IF AlreadyRunning(timer)
     THEN /\ tasks' = B
          /\ last' = Step("onCreated", "running", << >>, 0, <<"Ping">>)
     ELSE /\ HasFree(B)
          /\ tasks' = B (+) Copies(NewTask("start", 0, "none", 0), 1)
          /\ last' = Step("onCreated", "idle", << >>, 0, <<"Ping", "searchActive">>)
  /\ UNCHANGED <<timer, intervals, unchecked, icon, marks, gen, owed>>

\* onChanged(delta), up to its first await.  `cur` is delta.state.current,
\* or "none" when the delta carries no state field.
onChanged(B, d, cur) ==
  /\ HasFree(B)
  /\ IF cur = "interrupted" \/ cur = "complete"
     THEN /\ tasks' = B (+) Copies(NewTask("changed", d, "none", gen), 1)
          /\ last' = Step("onChanged", cur, << >>, 0, <<"Ping", "searchId">>)
     ELSE /\ tasks' = B (+) Copies(NewTask("draw", 0, "changed", 0), 1)
          /\ last' = Step("onChanged", cur, << >>, 0, <<"Ping", "searchActive">>)
  /\ UNCHANGED <<timer, intervals, unchecked, icon, marks, gen, owed>>

\* onErased() with a redraw requested as onChanged does.
onErasedRedraws(B) ==
  /\ HasFree(B)
  /\ tasks' = B (+) Copies(NewTask("draw", 0, "erased", 0), 1)
  /\ last' = Step("onErased", "", << >>, 0, <<"Ping", "searchActive">>)
  /\ UNCHANGED <<timer, intervals, unchecked, icon, marks, gen, owed>>

\* onErased()
onErased(B) ==
  /\ tasks' = B
  /\ last' = Step("onErased", "", << >>, 0, <<"Ping">>)
  /\ UNCHANGED <<timer, intervals, unchecked, icon, marks, gen, owed>>

\* ---------------------------------------------------------- browser events
\* The download table after each kind of change.
AfterCreated(d) == [downloads EXCEPT ![d] = Started(d)]
AfterPause(d) == [downloads EXCEPT ![d].paused = ~downloads[d].paused]
AfterComplete(d) ==
  [downloads EXCEPT ![d].state = "complete", ![d].paused = FALSE,
                    ![d].bytesReceived = downloads[d].fileSize]
AfterInterrupt(d, err) ==
  [downloads EXCEPT ![d].state = "interrupted", ![d].paused = FALSE, ![d].error = err]
AfterResume(d) == [downloads EXCEPT ![d].state = "in_progress", ![d].error = NoError]
AfterErase(d) == [downloads EXCEPT ![d] = Erased(d)]

InterruptReasons == {UserCanceled, NetworkFailed}

\* A download appears in the browser; onCreated is delivered.
Created(d) ==
  /\ downloads[d].state = "fresh"
  /\ \A e \in 1..(d - 1) : downloads[e].state # "fresh"
  /\ downloads' = AfterCreated(d)
  /\ \E f \in Choices(tasks, downloads, AfterCreated(d)) :
       onCreated(Freeze(tasks, DOMAIN f, f, downloads))
  /\ born' = born \cup {d}
  /\ Event

\* The user pauses or unpauses a transfer: a delta without a state field.
PauseToggled(d) ==
  /\ downloads[d].state = "in_progress"
  /\ downloads' = AfterPause(d)
  /\ \E f \in Choices(tasks, downloads, AfterPause(d)) :
       onChanged(Freeze(tasks, DOMAIN f, f, downloads), d, "none")
  /\ born' = born
  /\ Event

\* A transfer completes.
Completed(d) ==
  /\ downloads[d].state = "in_progress"
  /\ Len(unchecked) + InFlight(tasks, "changed") < MaxUnchecked
  /\ downloads' = AfterComplete(d)
  /\ \E f \in Choices(tasks, downloads, AfterComplete(d)) :
       onChanged(Freeze(tasks, DOMAIN f, f, downloads), d, "complete")
  /\ born' = born \ {d}
  /\ Event

\* A transfer is interrupted (cancelled by the user, or failed).
Interrupted(d, err) ==
  /\ downloads[d].state = "in_progress"
  /\ Len(unchecked) + InFlight(tasks, "changed") < MaxUnchecked
  /\ downloads' = AfterInterrupt(d, err)
  /\ \E f \in Choices(tasks, downloads, AfterInterrupt(d, err)) :
       onChanged(Freeze(tasks, DOMAIN f, f, downloads), d, "interrupted")
  /\ born' = born \ {d}
  /\ Event

\* An interrupted transfer is resumed.
Resumed(d) ==
  /\ downloads[d].state = "interrupted"
  /\ ~StartsWith(downloads[d].error, "USER_")
  /\ downloads' = AfterResume(d)
  /\ \E f \in Choices(tasks, downloads, AfterResume(d)) :
       onChanged(Freeze(tasks, DOMAIN f, f, downloads), d, "in_progress")
  /\ born' = born
  /\ Event

\* A finished download is removed from the browser's history.
Removed(d) ==
  /\ downloads[d].state \in {"interrupted", "complete"}
  /\ downloads' = AfterErase(d)
  /\ \E f \in Choices(tasks, downloads, AfterErase(d)) :
       onErased(Freeze(tasks, DOMAIN f, f, downloads))
  /\ born' = born
  /\ Event

\* The buffer left as it is.
ClearUncheckedKept(buf) == buf

\* `this.unchecked = []`
ClearUnchecked(buf) == << >>

\* onMessage(message)
Messages == {"PopupOpened", "Ping", "StatusCheck"}

\* The test of the message with every kind accepted.
IsPopupOpenedAny(m) == m \in Messages

\* `message == Message.PopupOpened`
IsPopupOpened(m) == m = "PopupOpened"

onMessage(m) ==
  /\ IF IsPopupOpened(m)
     THEN /\ HasFree(tasks)
          /\ unchecked' = ClearUnchecked(unchecked)
          /\ marks' = IF unchecked' = << >> THEN << >> ELSE marks
          /\ gen' = gen + 1
          /\ tasks' = tasks (+) Copies(NewTask("draw", 0, "popup", gen + 1), 1)
          /\ last' = Step("onMessage", m, << >>, gen + 1, <<"searchActive">>)
     ELSE /\ last' = Step("onMessage", m, << >>, 0, << >>)
          /\ UNCHANGED <<unchecked, marks, gen, tasks>>
  /\ UNCHANGED <<downloads, timer, intervals, icon, born>>

\* A message arrives that answers no StatusCheck: the popup has been opened
\* (PopupOpened), or a notification of the manager comes back to it.
Received(m) ==
  /\ onMessage(m)
  /\ owed' = owed
  /\ Event

\* The open popup replies to a StatusCheck with PopupOpened.
PopupReply ==
  /\ owed > 0
  /\ onMessage("PopupOpened")
  /\ owed' = owed - 1
  /\ nEvents' = nEvents

\* A live interval timer fires: tick() up to its await.
tick(h) ==
  /\ h \in intervals
  /\ HasFree(tasks)
  /\ tasks' = tasks (+) Copies(NewTask("tick", 0, "none", 0), 1)
  /\ last' = Step("tick", "", << >>, 0, <<"searchActive">>)
  /\ UNCHANGED <<downloads, timer, intervals, unchecked, icon, marks, gen, born, owed>>
  /\ Event

\* ------------------------------------------------------------ continuations
\* Task t ends and, if any, the task `next` of the same handler begins.
Replace(B, t, next) == (B (-) Copies(t, 1)) (+) next

\* start() after `await search(...)`.
StartResume(t) ==
  /\ t.kind = "start"
  /\ IF HasActive(Result(t))
     THEN /\ intervals' = intervals \cup {NewHandle(intervals)}
          /\ timer' = NewHandle(intervals)
          /\ tasks' = Replace(tasks, t, Copies(NewTask("tick", 0, "none", 0), 1))
          /\ last' = Step("startResume", "", Result(t), 0, <<"setInterval", "searchActive">>)
     ELSE /\ tasks' = Replace(tasks, t, EmptyBag)
          /\ last' = Step("startResume", "", Result(t), 0, << >>)
          /\ UNCHANGED <<timer, intervals>>
  /\ UNCHANGED <<downloads, unchecked, icon, marks, gen, born, owed, nEvents>>

\* tick() after `await search(...)`.
TickResume(t) ==
  /\ t.kind = "tick"
  /\ IF HasActive(Result(t))
     THEN /\ tasks' = Replace(tasks, t, Copies(NewTask("draw", 0, "tick", 0), 1))
          /\ last' = Step("tickResume", "", Result(t), 0, <<"Ping", "searchActive">>)
          /\ UNCHANGED <<timer, intervals>>
     ELSE /\ intervals' = stop(timer, intervals)
          /\ timer' = NullTimer
          /\ tasks' = Replace(tasks, t, EmptyBag)
          /\ last' = Step("tickResume", "", Result(t), 0, StopCalls(timer))
  /\ UNCHANGED <<downloads, unchecked, icon, marks, gen, born, owed, nEvents>>

\* `const [ item ] = await search({ id })`
FirstOf(res) == IF Len(res) = 0 THEN Undefined ELSE res[1]

\* The continuation of onChanged without the StatusCheck message.
ChangedResumeSilent(t) ==
  /\ t.kind = "changed"
  /\ unchecked' = Append(unchecked, FirstOf(Result(t)))
  /\ marks' = Append(marks, [ev |-> t.gen, ap |-> gen])
  /\ tasks' = Replace(tasks, t, Copies(NewTask("draw", 0, "changed", 0), 1))
  /\ last' = Step("changedResume", "", Result(t), 0, <<"searchActive">>)
  /\ UNCHANGED <<downloads, timer, intervals, icon, gen, born, owed, nEvents>>

\* onChanged after `await search({ id: delta.id })`, up to `await this.drawIcon()`.
ChangedResume(t) ==
  /\ t.kind = "changed"
  /\ unchecked' = Append(unchecked, FirstOf(Result(t)))
  /\ marks' = Append(marks, [ev |-> t.gen, ap |-> gen])
  /\ owed' = owed + 1
  /\ tasks' = Replace(tasks, t, Copies(NewTask("draw", 0, "changed", 0), 1))
  /\ last' = Step("changedResume", "", Result(t), 0, <<"StatusCheck", "searchActive">>)
  /\ UNCHANGED <<downloads, timer, intervals, icon, gen, born, nEvents>>

\* drawIcon() after `await search(...)`.
DrawResume(t) ==
  /\ t.kind = "draw"
  /\ tasks' = Replace(tasks, t, EmptyBag)
  /\ IF ColorOf(unchecked, Result(t)) = "throw"
     THEN /\ icon' = icon
          /\ last' = Step("drawResume", t.from, Result(t), t.gen, <<"throw">>)
     ELSE /\ icon' = DrawArgs(unchecked, Result(t))
          /\ last' = Step("drawResume", t.from, Result(t), t.gen, <<"draw">>)
  /\ UNCHANGED <<downloads, timer, intervals, unchecked, marks, gen, born, owed, nEvents>>

Next ==
  \/ \E d \in Ids : Created(d)
  \/ \E d \in Ids : PauseToggled(d)
  \/ \E d \in Ids : Completed(d)
  \/ \E d \in Ids, err \in InterruptReasons : Interrupted(d, err)
  \/ \E d \in Ids : Resumed(d)
  \/ \E d \in Ids : Removed(d)
  \/ \E m \in Messages : Received(m)
  \/ \E h \in intervals : tick(h)
  \/ \E t \in BagToSet(tasks) : StartResume(t)
  \/ \E t \in BagToSet(tasks) : TickResume(t)
  \/ \E t \in BagToSet(tasks) : ChangedResume(t)
  \/ \E t \in BagToSet(tasks) : DrawResume(t)

Spec == Init /\ [][Next]_vars

\* ===================================================== timer: C1 .. C5
Running == timer # NullTimer
Idle == timer = NullTimer

\* C1: in every reachable state at most one repeating timer exists, and a
\* live interval is always the one whose handle the timer field holds, also
\* when start() calls overlap.
C1_AtMostOneTimer ==
  /\ Cardinality(intervals) <= 1
  /\ intervals \subseteq {timer}

\* C2: a tick that resumes with an empty result while the timer is Running
\* releases the handle and leaves the timer Idle; the timer goes from Running
\* to Idle only in such a step; and no interval fires while the timer is
\* Idle, that is after a stop that no successful start() has followed.
C2_TimerSelfStop ==
  [][/\ (last'.op = "tickResume" /\ last'.res = << >> /\ Running)
          => (timer' = NullTimer /\ timer \notin intervals')
     /\ (Running /\ timer' = NullTimer)
          => (last'.op = "tickResume" /\ last'.res = << >>)
     /\ last'.op = "tick" => Running]_vars

\* C3: the timer goes from Idle to Running only in the continuation of a
\* start() whose query returned a non-empty list, and a timer is created
\* only there; a start() that resumes with an empty list creates no timer,
\* issues no tick, and an Idle timer stays Idle.
C3_IdleToRunning ==
  [][/\ ((Idle /\ timer' # NullTimer) \/ ~(intervals' \subseteq intervals))
          => (last'.op = "startResume" /\ last'.res # << >>)
     /\ (last'.op = "startResume" /\ last'.res = << >>)
          => /\ timer' = timer
             /\ intervals' = intervals
             /\ last'.fx = << >>
             /\ BagCardinality(tasks') = BagCardinality(tasks) - 1
             /\ InFlight(tasks', "tick") = InFlight(tasks, "tick")]_vars

\* A start() resumed with an empty result although a download had been created.
C3_Witness ==
  /\ last.op = "startResume" /\ last.res = << >>
  /\ Idle
  /\ \E d \in Ids : downloads[d].state # "fresh"

\* C4: a start() that begins while the timer field holds a handle is a
\* no-op: it issues no query, creates no timer, calls no tick and leaves the
\* timer handle, the live timers and the unchecked buffer as they are; a
\* Running state with exactly one timer has exactly one timer afterwards.
C4_StartIdempotent ==
  [][(last'.op = "onCreated" /\ Running)
       => /\ last'.fx = <<"Ping">>
          /\ BagCardinality(tasks') = BagCardinality(tasks)
          /\ InFlight(tasks', "start") = InFlight(tasks, "start")
          /\ InFlight(tasks', "tick") = InFlight(tasks, "tick")
          /\ timer' = timer
          /\ intervals' = intervals
          /\ unchecked' = unchecked
          /\ (intervals = {timer} => intervals' = {timer'})]_vars

\* start() was called from onCreated while exactly one timer was running.
C4_Witness ==
  /\ last.op = "onCreated" /\ last.arg = "running"
  /\ Running /\ intervals = {timer}

\* C5: once a download has been created and is still transferring, and no
\* start() or tick() continuation is in flight any more, the timer is Running.
C5_CreatedEnsuresRunning ==
  (born # {} /\ InFlight(tasks, "start") = 0 /\ InFlight(tasks, "tick") = 0) => Running

\* ============================================== the redraw alone: C6, C7
\* drawIcon() resumed on every small unchecked buffer and active list.
MaxBufLen == 2
MaxActiveLen == 2

AllErrors == {NoError, UserCanceled, NetworkFailed}

BufferEntries ==
  {Undefined} \cup
  {Item(1, st, FALSE, err, 1, 2) : st \in {"in_progress", "interrupted", "complete"},
                                   err \in AllErrors}

ActiveEntries == {Item(2, "in_progress", p, NoError, 1, 2) : p \in BOOLEAN}

SeqsUpTo(S, n) == UNION {[1..k -> S] : k \in 0..n}

InitDraw ==
  /\ downloads = [d \in Ids |-> Fresh(d)]
  /\ timer = NullTimer
  /\ intervals = {}
  /\ unchecked \in SeqsUpTo(BufferEntries, MaxBufLen)
  /\ \E res \in SeqsUpTo(ActiveEntries, MaxActiveLen) :
       tasks = Copies([NewTask("draw", 0, "changed", 0) EXCEPT !.answered = TRUE, !.res = res], 1)
  /\ icon = InitialIcon
  /\ last = Step("startup", "", << >>, 0, << >>)
  /\ marks = [i \in 1..Len(unchecked) |-> [ev |-> 0, ap |-> 0]]
  /\ gen = 0
  /\ born = {}
  /\ owed = 0
  /\ nEvents = 0

NextDraw == \E t \in BagToSet(tasks) : DrawResume(t)

SpecDraw == InitDraw /\ [][NextDraw]_vars

\* The redraw just completed called Icon.draw.
Drew == last.op = "drawResume" /\ last.fx = <<"draw">>

\* The rules of the Color Policy, as conditions on a buffer and an active list.
RuleError(buf) ==
  \E i \in 1..Len(buf) : buf[i].state = "interrupted" /\ ~StartsWith(buf[i].error, "USER_")
RulePaused(active) == \E i \in 1..Len(active) : active[i].paused = TRUE
RuleComplete(buf) == \E i \in 1..Len(buf) : buf[i].state = "complete"

\* C6: the colour a redraw passes to the renderer is Error if some unchecked
\* record is interrupted with an error not starting with USER_ (an absent
\* error included), otherwise Paused if some active record is paused,
\* otherwise Complete if some unchecked record is complete, otherwise Normal.
C6_ColorPriority ==
  Drew =>
    icon.color = IF RuleError(unchecked) THEN "Error"
                 ELSE IF RulePaused(last.res) THEN "Paused"
                 ELSE IF RuleComplete(unchecked) THEN "Complete"
                 ELSE "Normal"

\* One unchecked interrupted non-USER_ record and one paused active record: Error.
C6_Witness ==
  /\ Drew
  /\ Len(unchecked) = 1 /\ unchecked[1].state = "interrupted" /\ unchecked[1].error = NetworkFailed
  /\ Len(last.res) = 1 /\ last.res[1].paused
  /\ icon.color = "Error"

\* Every interrupted record of the buffer was cancelled by the user.
OnlyUserInterrupts(buf) ==
  \A i \in 1..Len(buf) : buf[i].state = "interrupted" => StartsWith(buf[i].error, "USER_")

\* C7: when every interrupted record of the unchecked buffer has an error
\* beginning with USER_, the redraw colour is not Error, whatever the active
\* list, and is the result of the rules Paused, Complete, Normal in order.
C7_UserCancelNotError ==
  (Drew /\ OnlyUserInterrupts(unchecked)) =>
    /\ icon.color # "Error"
    /\ icon.color = IF RulePaused(last.res) THEN "Paused"
                    ELSE IF RuleComplete(unchecked) THEN "Complete"
                    ELSE "Normal"

\* A USER_CANCELED record and a complete record, nothing paused: Complete.
C7_Witness ==
  /\ Drew
  /\ Len(unchecked) = 2
  /\ unchecked[1].state = "interrupted" /\ unchecked[1].error = UserCanceled
  /\ unchecked[2].state = "complete"
  /\ ~RulePaused(last.res)
  /\ icon.color = "Complete"

\* =============================================== unchecked buffer: C8 .. C10
PopupHandled == last.op = "onMessage" /\ last.arg = "PopupOpened"
PopupRedrawn == last.op = "drawResume" /\ last.arg = "popup"

\* C8 as stated: the buffer is empty once PopupOpened is handled, and when
\* the redraw of that message completes the buffer holds no record whose
\* change event was delivered before the message.
C8_ClearIgnoresDelivered ==
  /\ PopupHandled => unchecked = << >>
  /\ PopupRedrawn => \A i \in 1..Len(marks) : marks[i].ev >= last.gen

\* C8 amended: the buffer is empty once PopupOpened is handled, and when the
\* redraw of that message completes the buffer holds no record that was in
\* it when the message arrived: every record it holds was appended after
\* the message.
C8_ClearIgnoresBuffered ==
  /\ PopupHandled => unchecked = << >>
  /\ PopupRedrawn => \A i \in 1..Len(marks) : marks[i].ap >= last.gen

\* The redraw of a PopupOpened message completed over a buffer holding a
\* record appended after the message, for an event delivered before it.
C8_Witness ==
  /\ PopupRedrawn
  /\ \E i \in 1..Len(marks) : marks[i].ev < last.gen /\ marks[i].ap >= last.gen

\* C9: every element of the unchecked buffer is a download record whose
\* state is interrupted or complete.
C9_OnlyTerminalRecords ==
  \A i \in 1..Len(unchecked) : unchecked[i].state \in {"interrupted", "complete"}

\* C10: a record-by-id lookup that returns an empty list appends nothing to
\* the unchecked buffer, and no handler step raises an error.
C10_LookupMissNoOp ==
  /\ \A i \in 1..Len(unchecked) : unchecked[i] # Undefined
  /\ (last.op = "changedResume" /\ last.res = << >>) => last.fx = << >>
  /\ "throw" \notin {last.fx[i] : i \in 1..Len(last.fx)}
\* ===================================== the aggregate fraction: C11 .. C13
\* drawIcon() resumed on records with every combination of byte fields.
ByteCounts == {Absent, 0, 1, 2}
FileSizes == {Absent, 2}

AggBufferEntries ==
  {Item(1, "complete", FALSE, NoError, br, fs) : br \in ByteCounts, fs \in FileSizes}

AggActiveEntries ==
  {Item(2, "in_progress", FALSE, NoError, br, fs) : br \in ByteCounts \ {2}, fs \in FileSizes}

InitAgg ==
  /\ downloads = [d \in Ids |-> Fresh(d)]
  /\ timer = NullTimer
  /\ intervals = {}
  /\ unchecked \in SeqsUpTo(AggBufferEntries, MaxBufLen)
  /\ \E res \in SeqsUpTo(AggActiveEntries, MaxActiveLen) :
       tasks = Copies([NewTask("draw", 0, "changed", 0) EXCEPT !.answered = TRUE, !.res = res], 1)
  /\ icon = InitialIcon
  /\ last = Step("startup", "", << >>, 0, << >>)
  /\ marks = [i \in 1..Len(unchecked) |-> [ev |-> 0, ap |-> 0]]
  /\ gen = 0
  /\ born = {}
  /\ owed = 0
  /\ nEvents = 0

NextAgg == \E t \in BagToSet(tasks) : DrawResume(t) /\ t.from = "changed"

SpecAgg == InitAgg /\ [][NextAgg]_vars

\* The aggregation as the specification states it: a record is left out
\* only when it lacks both byte fields; an absent field counts as 0.
LacksBoth(r) == r.bytesReceived = Absent /\ r.fileSize = Absent
ReceivedOf(r) == IF r.bytesReceived = Absent THEN 0 ELSE r.bytesReceived
TotalOf(r) == IF r.fileSize = Absent THEN 0 ELSE r.fileSize

RECURSIVE SumReceived(_)
SumReceived(all) ==
  IF all = << >> THEN 0
  ELSE (IF LacksBoth(Head(all)) THEN 0 ELSE ReceivedOf(Head(all))) + SumReceived(Tail(all))

RECURSIVE SumTotal(_)
SumTotal(all) ==
  IF all = << >> THEN 0
  ELSE (IF LacksBoth(Head(all)) THEN 0 ELSE TotalOf(Head(all))) + SumTotal(Tail(all))

\* a/b and c/d are the same fraction (0/0 only equals 0/0).
SameFraction(a, b, c, d) ==
  IF b = 0 \/ d = 0 THEN a = c /\ b = d ELSE a * d = c * b

\* C11: when the active list of a redraw is non-empty, the fraction passed
\* to the renderer is the sum of received bytes over the sum of total bytes
\* of every record of the unchecked buffer and the active list, leaving out
\* only the records that lack both byte fields; a record with a known
\* fileSize and bytesReceived = 0 adds its size to the denominator.
C11_AggregateFraction ==
  (Drew /\ Len(last.res) > 0) =>
    /\ icon.frac
    /\ SameFraction(icon.num, icon.den,
                    SumReceived(unchecked \o last.res), SumTotal(unchecked \o last.res))

\* C12: whenever a redraw passes a fraction to the renderer the summed
\* denominator is not zero: with a non-empty active list whose records are
\* all left out of the sums, the fraction is omitted or 0, never 0/0.
C12_NoZeroDenominator ==
  (Drew /\ icon.frac) => icon.den # 0

\* C13: a redraw passes a fraction to the renderer if and only if the
\* active list returned by its own query is non-empty; with an empty
\* active list the renderer gets the colour only, also when the unchecked
\* buffer is not empty, and with an empty buffer as well the call is
\* draw(Normal) without a fraction.
C13_FractionIffActive ==
  Drew =>
    /\ icon.frac <=> Len(last.res) > 0
    /\ (Len(last.res) = 0 /\ unchecked = << >>)
         => icon = [color |-> "Normal", frac |-> FALSE, num |-> 0, den |-> 0]

\* A redraw over a non-empty buffer and an empty active list: no fraction.
C13_Witness ==
  /\ Drew
  /\ unchecked # << >>
  /\ last.res = << >>
  /\ ~icon.frac

\* ================================================ handler effects: C14 .. C18
Terminal == {"interrupted", "complete"}

\* C14: onChanged appends to the unchecked buffer exactly when the delta
\* carries a state whose current value is interrupted or complete, and then
\* appends exactly one record, the one fetched for delta.id; the effects of
\* such a handler come in the order Ping, lookup, append, StatusCheck,
\* redraw.  A delta without a state field, or with the new state
\* in_progress, leaves the buffer unchanged and sends no StatusCheck.
C14_ChangedAppends ==
  [][/\ (last'.op = "onChanged" /\ last'.arg \in Terminal)
          => /\ last'.fx = <<"Ping", "searchId">>
             /\ unchecked' = unchecked
             /\ InFlight(tasks', "changed") = InFlight(tasks, "changed") + 1
             /\ InFlight(tasks', "draw") = InFlight(tasks, "draw")
     /\ (last'.op = "onChanged" /\ last'.arg \notin Terminal)
          => /\ last'.fx = <<"Ping", "searchActive">>
             /\ unchecked' = unchecked
             /\ InFlight(tasks', "changed") = InFlight(tasks, "changed")
             /\ InFlight(tasks', "draw") = InFlight(tasks, "draw") + 1
     /\ last'.op = "changedResume"
          => /\ last'.fx = <<"StatusCheck", "searchActive">>
             /\ Len(unchecked') = Len(unchecked) + 1
             /\ SubSeq(unchecked', 1, Len(unchecked)) = unchecked
             /\ \E t \in BagToSet(tasks) :
                  /\ t.kind = "changed"
                  /\ CopiesIn(t, tasks') = CopiesIn(t, tasks) - 1
                  /\ unchecked'[Len(unchecked')].id = t.id
             /\ InFlight(tasks', "changed") = InFlight(tasks, "changed") - 1
             /\ InFlight(tasks', "draw") = InFlight(tasks, "draw") + 1
     /\ Len(unchecked') > Len(unchecked) => last'.op = "changedResume"]_vars

\* The colour the Color Policy gives for a buffer and an active list.
PolicyColor(buf, active) ==
  IF RuleError(buf) THEN "Error"
  ELSE IF RulePaused(active) THEN "Paused"
  ELSE IF RuleComplete(buf) THEN "Complete"
  ELSE "Normal"

\* The redraw that concludes an onChanged handler has just run.
ChangedRedrawn == last.op = "drawResume" /\ last.arg = "changed"

\* C15: every onChanged handler, whatever its delta, the unchecked buffer
\* and the result of its lookup, concludes with one Icon.draw call whose
\* colour is the Color Policy result over the buffer and the active list at
\* the time of that redraw.
C15_ChangedEndsInDraw ==
  ChangedRedrawn =>
    /\ last.fx = <<"draw">>
    /\ icon.color = PolicyColor(unchecked, last.res)

IsPrefix(a, b) == Len(a) <= Len(b) /\ SubSeq(b, 1, Len(a)) = a

\* C16: the unchecked buffer is emptied only by onMessage receiving
\* PopupOpened: every other step keeps the previous contents as a prefix of
\* the new contents; a message other than PopupOpened changes neither the
\* buffer nor the timer, requests no redraw and sends no notification.
C16_OnlyPopupClears ==
  [][/\ ~(last'.op = "onMessage" /\ last'.arg = "PopupOpened")
          => IsPrefix(unchecked, unchecked')
     /\ (last'.op = "onMessage" /\ last'.arg # "PopupOpened")
          => /\ unchecked' = unchecked
             /\ timer' = timer
             /\ intervals' = intervals
             /\ tasks' = tasks
             /\ icon' = icon
             /\ last'.fx = << >>]_vars

\* A Ping or StatusCheck arrived while the buffer held a record and the
\* timer was Running.
C16_Witness ==
  /\ last.op = "onMessage" /\ last.arg \in {"Ping", "StatusCheck"}
  /\ unchecked # << >>
  /\ Running

\* C17: onErased sends exactly one Ping and does nothing else: the
\* unchecked buffer (a record of the erased download included) and the
\* timer are unchanged, no query is issued and no redraw is requested.
C17_ErasedOnlyPings ==
  [][last'.op = "onErased"
       => /\ last'.fx = <<"Ping">>
          /\ unchecked' = unchecked
          /\ timer' = timer
          /\ intervals' = intervals
          /\ icon' = icon
          /\ BagCardinality(tasks') = BagCardinality(tasks)
          /\ \A k \in {"start", "tick", "changed", "draw"} :
               InFlight(tasks', k) = InFlight(tasks, k)]_vars

\* onErased ran for a download whose record is in the buffer.
C17_Witness ==
  /\ last.op = "onErased"
  /\ \E i \in 1..Len(unchecked) :
       unchecked[i] # Undefined /\ downloads[unchecked[i].id].state = "erased"

\* C18: a tick that resumes with a non-empty list sends one Ping and
\* requests one redraw and changes neither the timer handle, the live
\* timers nor the unchecked buffer; a tick that resumes with an empty list
\* sends no notification and requests no redraw.
C18_TickEffects ==
  [][/\ (last'.op = "tickResume" /\ last'.res # << >>)
          => /\ last'.fx = <<"Ping", "searchActive">>
             /\ timer' = timer
             /\ intervals' = intervals
             /\ unchecked' = unchecked
             /\ InFlight(tasks', "draw") = InFlight(tasks, "draw") + 1
             /\ InFlight(tasks', "tick") = InFlight(tasks, "tick") - 1
     /\ (last'.op = "tickResume" /\ last'.res = << >>)
          => /\ \A i \in 1..Len(last'.fx) : last'.fx[i] \notin {"Ping", "StatusCheck", "searchActive"}
             /\ InFlight(tasks', "draw") = InFlight(tasks, "draw")
             /\ unchecked' = unchecked
             /\ icon' = icon]_vars

\* A tick resumed with a non-empty list while one timer was running.
C18_Witness ==
  /\ last.op = "tickResume" /\ last.res # << >>
  /\ Running /\ intervals = {timer}

\* ================================================== end to end: C19, C20
\* No download is transferring, no handler is suspended, and a change event
\* or a PopupOpened message has been handled (a download that is no longer
\* fresh nor transferring has had its terminal change event).
Quiescent ==
  /\ tasks = EmptyBag
  /\ \A d \in Ids : downloads[d].state # "in_progress"
  /\ gen >= 1 \/ \E d \in Ids : downloads[d].state # "fresh"

\* C19: in every quiescent state reached after a change event or a
\* PopupOpened message, the most recent Icon.draw call carried no fraction
\* and the colour the Color Policy gives for the current unchecked buffer;
\* a draw of a redraw or tick that began earlier is never the last one.
C19_QuiescentIconCurrent ==
  Quiescent =>
    icon = [color |-> PolicyColor(unchecked, << >>), frac |-> FALSE, num |-> 0, den |-> 0]

\* The manager with the popup open, over the downloads transferring at
\* startup: they complete or are interrupted and may be erased, the timers
\* fire, the popup replies to every StatusCheck, and every suspended
\* handler is resumed.
NextPopup ==
  \/ \E d \in Ids : Completed(d)
  \/ \E d \in Ids, err \in InterruptReasons : Interrupted(d, err)
  \/ \E d \in Ids : Removed(d)
  \/ \E h \in intervals : tick(h)
  \/ PopupReply
  \/ \E t \in BagToSet(tasks) : StartResume(t)
  \/ \E t \in BagToSet(tasks) : TickResume(t)
  \/ \E t \in BagToSet(tasks) : ChangedResume(t)
  \/ \E t \in BagToSet(tasks) : DrawResume(t)

SpecPopup ==
  /\ Init
  /\ [][NextPopup]_vars
  /\ WF_vars(PopupReply)
  /\ WF_vars(\E t \in BagToSet(tasks) : StartResume(t))
  /\ WF_vars(\E t \in BagToSet(tasks) : TickResume(t))
  /\ WF_vars(\E t \in BagToSet(tasks) : ChangedResume(t))
  /\ WF_vars(\E t \in BagToSet(tasks) : DrawResume(t))

\* C20: with the popup open and replying PopupOpened to every StatusCheck,
\* after the change events of a run, in any interleaving of the lookups
\* with the replies, the unchecked buffer is eventually empty for good and
\* the colour last drawn is neither Error nor Complete; every append to the
\* buffer is followed, in the same handler, by a StatusCheck.
C20_Handshake ==
  /\ <>[](unchecked = << >> /\ owed = 0 /\ icon.color \notin {"Error", "Complete"})
  /\ [][Len(unchecked') > Len(unchecked)
          => /\ last'.op = "changedResume"
             /\ last'.fx = <<"StatusCheck", "searchActive">>
             /\ owed' = owed + 1]_vars

\* Every lookup has resumed, every StatusCheck has been replied to, and the
\* redraw of the last reply has drawn Normal over the emptied buffer.
C20_Witness ==
  /\ tasks = EmptyBag
  /\ owed = 0
  /\ \E d \in Ids : downloads[d].state \in Terminal
  /\ unchecked = << >>
  /\ PopupRedrawn /\ Drew
  /\ icon.color = "Normal"
====
